---- MODULE Spec2Model ----
(***************************************************************************)
(* Arrival scheduler of src/src/models/generator.py: VehicleGenerator and  *)
(* CustomVehicleGenerator on a SimPy environment.                          *)
(*                                                                         *)
(* The driver constructs one CustomVehicleGenerator, may call              *)
(* generate_vehicle directly, and may register run() as a process.  A run  *)
(* process executes between two yields without interleaving (cooperative   *)
(* scheduling): `control' names the process that is executing, 0 when the  *)
(* environment or the driver has control.                                  *)
(***************************************************************************)
EXTENDS Integers, Sequences, FiniteSets, TLC

\* ------------------------------------------------------------------ bounds
MaxCount == 1      \* normal_count, ev_count range up to this
MaxDelay == 1      \* the sampler returns a delay up to this
MaxDirect == 1     \* direct generate_vehicle calls beside a run
MaxInject == 2     \* direct generate_vehicle calls of a driver without run
MaxInitialTime == 1 \* simpy.Environment(initial_time) ranges up to this
PoolCap == 1       \* capacity of each simpy.Resource

Procs == {1, 2}    \* run() processes the driver may register

\* The constructor takes any int.  -1 stands for every negative count:
\* list repetition treats all of them alike.
Counts == (0 - 1)..MaxCount
VTypes == {"normal", "ev"}

\* The attributes of the instance that run reads.
RunAttrs == {"normal_count", "ev_count", "interarrival_func"}

VARIABLES
    constructed,   \* __init__ has returned
    normal_count,  \* self.normal_count
    ev_count,      \* self.ev_count
    next_id,       \* self.next_id
    now,           \* env.now
    control,       \* the run process executing, 0 for none
    run,           \* run[p]: the generator object of the p-th run() process
    calls,         \* the generate_vehicle calls made so far, in order
    pending,       \* vehicle processes registered, Initialize not yet processed
    parking_res,   \* the parking simpy.Resource: users and queue lengths
    charger_res,   \* the charger simpy.Resource
    log,           \* number of events the logger has received
    raised,        \* the exceptions surfaced to the driver, with their origin
    last,          \* the last operation performed on the scheduler
    rnd,           \* the random source and the sampler since seeding
    archive,       \* what a first seeded execution produced (reproducibility)
    attrs          \* which of the attributes run reads the instance has

vars == <<constructed, normal_count, ev_count, next_id, now, control, run,
          calls, pending, parking_res, charger_res, log, raised, last, rnd,
          archive, attrs>>

\* ----------------------------------------------------------- pure helpers
\* Mutant: at least one copy, as if the count were max(1, k).
ListTimes_atLeastOne(x, k) == IF k <= 1 THEN <<x>> ELSE [i \in 1..k |-> x]

\* Python list repetition: [x] * k, empty for k <= 0.
ListTimes(x, k) == IF k <= 0 THEN <<>> ELSE [i \in 1..k |-> x]

\* ["normal"] * self.normal_count + ["ev"] * self.ev_count
BuildPlan(n, m) == ListTimes("normal", n) \o ListTimes("ev", m)

\* Mutant: the swap without a temporary, which overwrites one element.
Swap_overwrite(x, i, j) == [x EXCEPT ![i] = x[j]]

\* x[i], x[j] = x[j], x[i]
Swap(x, i, j) == [x EXCEPT ![i] = x[j], ![j] = x[i]]

\* random.shuffle: for i in reversed(range(1, len(x))): j = randbelow(i + 1);
\* x[i], x[j] = x[j], x[i].  rs is the sequence of raw draws of the random
\* source, consumed from position k; positions here are 1-based.
RECURSIVE ShuffleFrom(_, _, _, _)
ShuffleFrom(x, rs, i, k) ==
    IF i < 2 THEN x
    ELSE ShuffleFrom(Swap(x, i, (rs[k] % i) + 1), rs, i - 1, k + 1)

Shuffle(x, rs) == ShuffleFrom(x, rs, Len(x), 1)

\* Number of raw draws random.shuffle takes for a list of length n.
DrawsNeeded(n) == IF n < 2 THEN 0 ELSE n - 1

RECURSIVE SumSeq(_)
SumSeq(s) == IF s = <<>> THEN 0 ELSE s[1] + SumSeq(Tail(s))

Prefix(s, k) == SubSeq(s, 1, k)

CountOf(s, x) == Cardinality({i \in 1..Len(s) : s[i] = x})


\* --------------------------------------------------- the random source
\* Values randbelow may return while random.shuffle permutes a list of
\* length n: the k-th draw is randbelow(n - k + 1).
DrawSeqs(n) ==
    {js \in [1..DrawsNeeded(n) -> 0..(n - 1)] :
        \A k \in 1..DrawsNeeded(n) : js[k] <= n - k}

\* After random.seed(s) the source yields one fixed stream.  rnd.tape is the
\* part of that stream drawn so far, rnd.tpos the read position; a draw at a
\* recorded position repeats the recorded value.  Unseeded, any value comes.
ReplaysTape(js, n) ==
    \A k \in 1..Len(js) :
        (rnd.seeded /\ rnd.tpos + k <= Len(rnd.tape))
            => js[k] = rnd.tape[rnd.tpos + k] % (n - k + 1)

TapeAfter(js) ==
    IF ~rnd.seeded THEN rnd
    ELSE [rnd EXCEPT
            !.tape = IF rnd.tpos + Len(js) <= Len(rnd.tape) THEN rnd.tape
                     ELSE Prefix(rnd.tape, rnd.tpos) \o js,
            !.tpos = rnd.tpos + Len(js)]

\* What a call of self.interarrival_func() may do: return a number or raise.
Raises == [ok |-> FALSE, value |-> 0]
Returns(d) == [ok |-> TRUE, value |-> d]
\* -1 stands for every negative delay: the timeout treats all of them alike.
Outcomes == {Raises} \cup {Returns(d) : d \in (0 - 1)..MaxDelay}

ReplaysSample(o) ==
    (rnd.seeded /\ rnd.spos < Len(rnd.samples)) => o = rnd.samples[rnd.spos + 1]

SamplesAfter(r, o) ==
    IF ~r.seeded THEN r
    ELSE [r EXCEPT
            !.samples = IF r.spos < Len(r.samples) THEN r.samples
                        ELSE Append(r.samples, o),
            !.spos = r.spos + 1]

\* --------------------------------------------------------------- state
NewRun == [pc |-> "idle", vehicle_types |-> <<>>, idx |-> 0, delays |-> <<>>,
           start |-> 0, wake |-> 0, endt |-> 0, err |-> "none"]

NoOp == [op |-> "other", vtype |-> "none", vid |-> 0, at |-> 0, by |-> 0,
         outcome |-> "none"]

EmptyPool == [users |-> 0, queue |-> 0]

NoArchive == [present |-> FALSE, types |-> <<>>, delays |-> <<>>]

Unseeded == [seeded |-> FALSE, tape |-> <<>>, tpos |-> 0, samples |-> <<>>,
             spos |-> 0]

Fresh ==
    /\ next_id = 0
    /\ control = 0
    /\ run = [p \in Procs |-> NewRun]
    /\ calls = <<>>
    /\ pending = [t \in VTypes |-> 0]
    /\ parking_res = EmptyPool
    /\ charger_res = EmptyPool
    /\ log = 0
    /\ raised = {}
    /\ last = NoOp

Init ==
    /\ constructed = FALSE
    /\ normal_count = 0
    /\ ev_count = 0
    /\ now = 0
    /\ Fresh
    /\ rnd = Unseeded
    /\ archive = NoArchive
    /\ attrs = {}

\* The Vehicle objects constructed so far: a call whose constructor raised
\* built none.
vehicles == SelectSeq(calls, LAMBDA c : c.outcome # "ctor_raises")

\* The generate_vehicle calls made by `by': a run process, or 0 for the driver.
CallsBy(by) == SelectSeq(calls, LAMBDA c : c.by = by)

\* The entities run process p has started, in spawn order.
StartedBy(p) == SelectSeq(calls, LAMBDA c : c.by = p /\ c.outcome = "ok")

Surfaced(by, err) == [by |-> by, err |-> err] \in raised
TypesOf(vs) == [i \in 1..Len(vs) |-> vs[i].vtype]
IdsOf(vs) == [i \in 1..Len(vs) |-> vs[i].vid]
TimesOf(vs) == [i \in 1..Len(vs) |-> vs[i].at]

Terminated(p) == run[p].pc \in {"done", "failed"}


\* ------------------------------------------------ CustomVehicleGenerator
\* __init__: stores its arguments; no argument is checked.
CustomInit(n, m) ==
    /\ ~constructed
    /\ constructed' = TRUE
    /\ normal_count' = n
    /\ ev_count' = m
    /\ next_id' = 0
    /\ attrs' = RunAttrs
    /\ UNCHANGED <<now, control, run, calls, pending, parking_res,
                   charger_res, log, raised, last, rnd, archive>>

\* Mutant: the counter is not advanced.
NextIdAfter_same(id) == id

\* Mutant: the counter is advanced twice.
NextIdAfter_skip(id) == id + 2

\* Mutant: the counter starts again at 0 after two identifiers.
NextIdAfter_wrap(id) == (id + 1) % 2

\* self.next_id += 1
NextIdAfter(id) == id + 1

\* Mutant: the identifier is taken from a counter kept per caller.
NewCall_perCaller(vtype, t, by, outcome) ==
    [vid |-> Len(CallsBy(by)), vtype |-> vtype, at |-> t, by |-> by,
     outcome |-> outcome, parking_res |-> "parking_res",
     charger_res |-> "charger_res", logger |-> "logger"]

\* One generate_vehicle call at time t by `by'.  outcome is what the entity
\* factory does: "ok", "ctor_raises" (Vehicle(...) raises) or
\* "process_raises" (env.process(vehicle.process()) raises).  vid is the
\* identifier passed to the constructor, the handles are those of the
\* scheduler.
NewCall(vtype, t, by, outcome) ==
    [vid |-> next_id, vtype |-> vtype, at |-> t, by |-> by,
     outcome |-> outcome, parking_res |-> "parking_res",
     charger_res |-> "charger_res", logger |-> "logger"]

\* Mutant: generate_vehicle logs the arrival itself and takes the slot of
\* the pool for the vehicle.
generate_vehicle_acquires(vtype, t, by, outcome) ==
    /\ calls' = Append(calls, NewCall(vtype, t, by, outcome))
    /\ next_id' = IF outcome = "ctor_raises" THEN next_id
                  ELSE NextIdAfter(next_id)
    /\ pending' = IF outcome = "ok" THEN [pending EXCEPT ![vtype] = @ + 1]
                  ELSE pending
    /\ last' = [op |-> "generate_vehicle", vtype |-> vtype, vid |-> next_id,
                at |-> t, by |-> by, outcome |-> outcome]
    /\ parking_res' = IF vtype = "normal"
                      THEN [parking_res EXCEPT !.users = 1] ELSE parking_res
    /\ charger_res' = IF vtype = "ev"
                      THEN [charger_res EXCEPT !.users = 1] ELSE charger_res
    /\ log' = log + 1

\* Mutant: the counter is advanced after the process was started, so a
\* failed start leaves it as it was.
generate_vehicle_incrementLast(vtype, t, by, outcome) ==
    /\ calls' = Append(calls, NewCall(vtype, t, by, outcome))
    /\ next_id' = IF outcome = "ok" THEN NextIdAfter(next_id) ELSE next_id
    /\ pending' = IF outcome = "ok" THEN [pending EXCEPT ![vtype] = @ + 1]
                  ELSE pending
    /\ last' = [op |-> "generate_vehicle", vtype |-> vtype, vid |-> next_id,
                at |-> t, by |-> by, outcome |-> outcome]
    /\ UNCHANGED <<parking_res, charger_res, log>>

generate_vehicle(vtype, t, by, outcome) ==
    /\ calls' = Append(calls, NewCall(vtype, t, by, outcome))
    /\ next_id' = IF outcome = "ctor_raises" THEN next_id
                  ELSE NextIdAfter(next_id)
    /\ pending' = IF outcome = "ok" THEN [pending EXCEPT ![vtype] = @ + 1]
                  ELSE pending
    /\ last' = [op |-> "generate_vehicle", vtype |-> vtype, vid |-> next_id,
                at |-> t, by |-> by, outcome |-> outcome]
    /\ UNCHANGED <<parking_res, charger_res, log>>

FactoryOutcomes == {"ok", "ctor_raises", "process_raises"}

\* The driver calls generate_vehicle outside run, at most `limit' times.
DirectCall(vtype, limit) ==
    /\ constructed
    /\ control = 0
    /\ Len(CallsBy(0)) < limit
    /\ \E outcome \in FactoryOutcomes :
        /\ generate_vehicle(vtype, now, 0, outcome)
        /\ raised' = IF outcome = "ok" THEN raised
                     ELSE raised \cup {[by |-> 0, err |-> "SpawnFailure"]}
    /\ UNCHANGED <<constructed, normal_count, ev_count, now, control, run,
                   rnd, archive, attrs>>

DirectGenerate(vtype) == DirectCall(vtype, MaxDirect)

\* The driver registers run() as a process: env.process(gen.run()).  An
\* Initialize event is scheduled at the current time.
RunStart(p) ==
    /\ constructed
    /\ control = 0
    /\ run[p].pc = "idle"
    /\ \A q \in Procs : q < p => run[q].pc # "idle"
    /\ run' = [run EXCEPT ![p].pc = "init"]
    /\ last' = NoOp
    /\ UNCHANGED <<constructed, normal_count, ev_count, next_id, now, control,
                   calls, pending, parking_res, charger_res, log, raised,
                   rnd, archive, attrs>>

\* Mutant: the shuffle draws from a source seeded with self.next_id
\* (random.Random(self.next_id).shuffle) instead of the shared source.
ShuffledPlan_ownSource(js) ==
    Shuffle(BuildPlan(normal_count, ev_count),
            [k \in 1..Len(js) |-> next_id % (Len(js) + 2 - k)])

\* Mutant: the plan is kept on the instance and used up by the first run;
\* a run that starts after entities were spawned finds it empty.
ShuffledPlan_usedUp(js) ==
    IF calls # <<>> THEN <<>>
    ELSE Shuffle(BuildPlan(normal_count, ev_count), js)

\* vehicle_types = [...]; random.shuffle(vehicle_types)
ShuffledPlan(js) == Shuffle(BuildPlan(normal_count, ev_count), js)

PlanLength == Len(BuildPlan(normal_count, ev_count))

\* The process starts: the plan is built and shuffled.
RunBegin(p) ==
    /\ control = 0
    /\ run[p].pc = "init"
    /\ \E js \in DrawSeqs(PlanLength) :
        /\ ReplaysTape(js, PlanLength)
        /\ run' = [run EXCEPT ![p].pc = "loop",
                              ![p].vehicle_types = ShuffledPlan(js),
                              ![p].start = now]
        /\ rnd' = TapeAfter(js)
    /\ control' = p
    /\ last' = NoOp
    /\ UNCHANGED <<constructed, normal_count, ev_count, next_id, now,
                   calls, pending, parking_res, charger_res, log, raised,
                   archive, attrs>>

\* The for loop is exhausted: the generator returns.
RunFinish(p) ==
    /\ control = p
    /\ run[p].pc = "loop"
    /\ run[p].idx >= Len(run[p].vehicle_types)
    /\ run' = [run EXCEPT ![p].pc = "done", ![p].endt = now]
    /\ control' = 0
    /\ UNCHANGED <<constructed, normal_count, ev_count, next_id, now,
                   calls, pending, parking_res, charger_res, log, raised,
                   last, rnd, archive, attrs>>

\* Mutant: a negative delay is accepted.
TimeoutRaises_never(d) == FALSE

\* simpy.Environment.timeout(delay) raises ValueError for a negative delay.
TimeoutRaises(d) == d < 0

\* Mutant: the delay taken as an absolute time.
WakeTime_absolute(t, d) == d

\* The time at which a timeout created at t with delay d fires.
WakeTime(t, d) == t + d

\* The run record after the sampler call of one loop iteration.
AfterSample(r, o) ==
    IF ~o.ok THEN
        [r EXCEPT !.pc = "failed", !.err = "SamplerError", !.endt = now]
    ELSE IF TimeoutRaises(o.value) THEN
        [r EXCEPT !.pc = "failed", !.err = "ValueError", !.endt = now,
                  !.delays = Append(@, o.value)]
    ELSE
        [r EXCEPT !.pc = "waiting", !.delays = Append(@, o.value),
                  !.wake = WakeTime(now, o.value)]

\* yield self.env.timeout(self.interarrival_func())
RunSample(p) ==
    /\ control = p
    /\ run[p].pc = "loop"
    /\ run[p].idx < Len(run[p].vehicle_types)
    /\ \E o \in Outcomes :
        /\ ReplaysSample(o)
        /\ run' = [run EXCEPT ![p] = AfterSample(run[p], o)]
        /\ rnd' = SamplesAfter(rnd, o)
        /\ raised' = IF run'[p].pc = "failed"
                     THEN raised \cup {[by |-> p, err |-> run'[p].err]}
                     ELSE raised
    /\ control' = 0
    /\ UNCHANGED <<constructed, normal_count, ev_count, next_id, now,
                   calls, pending, parking_res, charger_res, log, last,
                   archive, attrs>>

\* Mutant: the loop body catches the exception and goes on.
AfterSpawn_swallow(r, outcome) == [r EXCEPT !.pc = "loop", !.idx = @ + 1]

\* Mutant: the loop body waits for the vehicle process it started
\* (yield self.env.process(...)).
AfterSpawn_join(r, outcome) ==
    IF outcome = "ok" THEN [r EXCEPT !.pc = "joining", !.idx = @ + 1]
    ELSE [r EXCEPT !.pc = "failed", !.err = "SpawnFailure", !.endt = r.wake]

\* Mutant: a delay is sampled for every other element of the plan only; the
\* element after a spawn is spawned at once, on the same timeout.
AfterSpawn_twice(r, outcome) ==
    IF outcome = "ok" /\ r.idx + 1 < Len(r.vehicle_types)
                     /\ Len(r.delays) = r.idx + 1 THEN
        [r EXCEPT !.pc = "waiting", !.idx = @ + 1]
    ELSE IF outcome = "ok" THEN
        [r EXCEPT !.pc = "loop", !.idx = @ + 1]
    ELSE
        [r EXCEPT !.pc = "failed", !.err = "SpawnFailure", !.endt = r.wake]

\* Mutant: the plan is built again from the counts after every spawn.
AfterSpawn_replan(r, outcome) ==
    IF outcome = "ok" THEN
        [r EXCEPT !.pc = "loop", !.idx = @ + 1,
                  !.vehicle_types = BuildPlan(normal_count, ev_count)]
    ELSE
        [r EXCEPT !.pc = "failed", !.err = "SpawnFailure", !.endt = r.wake]

\* The run record after generate_vehicle returned or raised.
AfterSpawn(r, outcome) ==
    IF outcome = "ok" THEN
        [r EXCEPT !.pc = "loop", !.idx = @ + 1]
    ELSE
        [r EXCEPT !.pc = "failed", !.err = "SpawnFailure", !.endt = r.wake]

\* The timeout of p is the next event of the queue: Initialize events are
\* urgent and come first, then the earliest timeout.
NextEvent(p) ==
    /\ run[p].pc = "waiting"
    /\ \A t \in VTypes : pending[t] = 0
    /\ \A q \in Procs : run[q].pc # "init"
    /\ \A q \in Procs : run[q].pc = "waiting" => run[q].wake >= run[p].wake

\* The timeout fires: the clock advances and the loop body calls
\* self.generate_vehicle(vtype).
RunSpawn(p) ==
    /\ control = 0
    /\ NextEvent(p)
    /\ now' = run[p].wake
    /\ \E outcome \in FactoryOutcomes :
        LET vtype == run[p].vehicle_types[run[p].idx + 1] IN
        /\ generate_vehicle(vtype, run[p].wake, p, outcome)
        /\ run' = [run EXCEPT ![p] = AfterSpawn(run[p], outcome)]
        /\ control' = IF run'[p].pc = "loop" THEN p ELSE 0
        /\ raised' = IF run'[p].pc = "failed"
                     THEN raised \cup {[by |-> p, err |-> run'[p].err]}
                     ELSE raised
    /\ UNCHANGED <<constructed, normal_count, ev_count, rnd, archive,
                   attrs>>

\* ------------------------------------------------------ Vehicle lifecycle
\* The lifecycle of a vehicle is not part of generator.py.  A registered
\* vehicle process starts, logs its arrival and requests the pool of its
\* type; it gets a slot when one is free and waits in the queue otherwise.
\* Departures are left out: a vehicle that never leaves blocks the ones
\* behind it for ever, the worst case for the scheduler.
Request(pool) ==
    IF pool.users < PoolCap THEN [pool EXCEPT !.users = @ + 1]
    ELSE [pool EXCEPT !.queue = @ + 1]

VehicleArrive(vtype) ==
    /\ control = 0
    /\ pending[vtype] > 0
    /\ pending' = [pending EXCEPT ![vtype] = @ - 1]
    /\ parking_res' = IF vtype = "normal" THEN Request(parking_res)
                      ELSE parking_res
    /\ charger_res' = IF vtype = "ev" THEN Request(charger_res)
                      ELSE charger_res
    /\ log' = log + 1
    /\ last' = NoOp
    /\ UNCHANGED <<constructed, normal_count, ev_count, next_id, now, control,
                   run, calls, raised, rnd, archive, attrs>>

\* ------------------------------------------------------------------ Spec
Next ==
    \/ \E n, m \in Counts : CustomInit(n, m)
    \/ \E vtype \in VTypes : DirectGenerate(vtype)
    \/ RunStart(1)
    \/ RunBegin(1)
    \/ RunSample(1)
    \/ RunFinish(1)
    \/ RunSpawn(1)
    \/ \E vtype \in VTypes : VehicleArrive(vtype)

Spec == Init /\ [][Next]_vars

\* ------------------------------------------------ fair scheduling (SimPy)
\* env.run() keeps processing the events of the queue: the Initialize events
\* of registered processes and the timeouts of the run process.  The driver
\* may inject vehicles before it registers run().
EnvStep ==
    \/ RunBegin(1)
    \/ RunSample(1)
    \/ RunFinish(1)
    \/ RunSpawn(1)
    \/ \E vtype \in VTypes : VehicleArrive(vtype)

LiveNext ==
    \/ \E n, m \in Counts : CustomInit(n, m)
    \/ \E vtype \in VTypes : run[1].pc = "idle" /\ DirectGenerate(vtype)
    \/ RunStart(1)
    \/ EnvStep

FairSpec == Init /\ [][LiveNext]_vars /\ WF_vars(EnvStep)

\* ------------------------------------------------------- reproducibility
\* The driver seeds the random source and the sampler, runs one scheduler to
\* completion, then seeds both again with the same seed and runs a second
\* scheduler, constructed with the same counts and the same sampler, in a
\* new environment.  In each execution the driver may inject vehicles with
\* generate_vehicle before it registers run().
DetInit ==
    /\ constructed = FALSE
    /\ normal_count = 0
    /\ ev_count = 0
    /\ now = 0
    /\ Fresh
    /\ rnd = [Unseeded EXCEPT !.seeded = TRUE]
    /\ archive = NoArchive
    /\ attrs = {}

Restart(t0) ==
    /\ rnd.seeded
    /\ ~archive.present
    /\ control = 0
    /\ run[1].pc = "done"
    /\ archive' = [present |-> TRUE, types |-> TypesOf(StartedBy(1)),
                   delays |-> run[1].delays]
    /\ rnd' = [rnd EXCEPT !.tpos = 0, !.spos = 0]
    /\ now' = t0
    /\ next_id' = 0
    /\ control' = 0
    /\ run' = [p \in Procs |-> NewRun]
    /\ calls' = <<>>
    /\ pending' = [t \in VTypes |-> 0]
    /\ parking_res' = EmptyPool
    /\ charger_res' = EmptyPool
    /\ log' = 0
    /\ raised' = {}
    /\ last' = NoOp
    /\ UNCHANGED <<constructed, normal_count, ev_count, attrs>>

DetNext ==
    \/ \E n, m \in Counts : CustomInit(n, m)
    \/ \E vtype \in VTypes : run[1].pc = "idle" /\ DirectGenerate(vtype)
    \/ RunStart(1)
    \/ RunBegin(1)
    \/ RunSample(1)
    \/ RunFinish(1)
    \/ RunSpawn(1)
    \/ \E vtype \in VTypes : VehicleArrive(vtype)
    \/ \E t0 \in 0..MaxInitialTime : Restart(t0)

DetSpec == DetInit /\ [][DetNext]_vars

\* ------------------------------------------------------- driver without run
\* A driver that constructs the scheduler in an environment with some
\* initial time and only injects vehicles: run() is never registered.
DriverInit ==
    /\ constructed = FALSE
    /\ normal_count = 0
    /\ ev_count = 0
    /\ now \in 0..MaxInitialTime
    /\ Fresh
    /\ rnd = Unseeded
    /\ archive = NoArchive
    /\ attrs = {}

DriverNext ==
    \/ \E n, m \in Counts : CustomInit(n, m)
    \/ \E vtype \in VTypes : DirectCall(vtype, MaxInject)
    \/ \E vtype \in VTypes : VehicleArrive(vtype)

DriverSpec == DriverInit /\ [][DriverNext]_vars

\* ------------------------------------------- counts reassigned by the driver
\* normal_count and ev_count are plain attributes of the scheduler: the
\* driver may assign them at any time it has control.  Assignments made
\* after the run has ended cannot bear on it and are left out.
SetCounts(n, m) ==
    /\ constructed
    /\ control = 0
    /\ ~Terminated(1)
    /\ <<n, m>> # <<normal_count, ev_count>>
    /\ normal_count' = n
    /\ ev_count' = m
    /\ attrs' = attrs \cup {"normal_count", "ev_count"}
    /\ last' = NoOp
    /\ UNCHANGED <<constructed, next_id, now, control, run, calls, pending,
                   parking_res, charger_res, log, raised, rnd, archive>>

ReconfNext ==
    \/ \E n, m \in Counts : CustomInit(n, m)
    \/ \E n, m \in Counts : SetCounts(n, m)
    \/ RunStart(1)
    \/ RunBegin(1)
    \/ RunSample(1)
    \/ RunFinish(1)
    \/ RunSpawn(1)
    \/ \E vtype \in VTypes : VehicleArrive(vtype)

ReconfSpec == Init /\ [][ReconfNext]_vars

\* ------------------------------------------------------- VehicleGenerator
\* The attributes read by run that VehicleGenerator.__init__ defines: none.
BaseAttrs == {}

\* VehicleGenerator.__init__: env, the two resources, the logger, next_id.
BaseInit ==
    /\ ~constructed
    /\ constructed' = TRUE
    /\ next_id' = 0
    /\ attrs' = BaseAttrs
    /\ UNCHANGED <<normal_count, ev_count, now, control, run, calls, pending,
                   parking_res, charger_res, log, raised, last, rnd, archive>>

\* The driver registers VehicleGenerator.run as a process.
BaseRunStart(p) ==
    /\ constructed
    /\ control = 0
    /\ run[p].pc = "idle"
    /\ \A q \in Procs : q < p => run[q].pc # "idle"
    /\ run' = [run EXCEPT ![p].pc = "base_init"]
    /\ last' = NoOp
    /\ UNCHANGED <<constructed, normal_count, ev_count, next_id, now, control,
                   calls, pending, parking_res, charger_res, log, raised,
                   rnd, archive, attrs>>

\* Mutant: the base run leaves the plan in the order it was built.
BaseShuffledPlan_unshuffled(js) == BuildPlan(normal_count, ev_count)

\* vehicle_types = [...]; random.shuffle(vehicle_types) of the base run
BaseShuffledPlan(js) == Shuffle(BuildPlan(normal_count, ev_count), js)

\* Mutant: a missing attribute reads as a default, 0 for a count, and the
\* run returns at once as for an empty plan.
AttributeFailure_default(r, t) == [r EXCEPT !.pc = "done", !.endt = t]

\* The run record after an attribute lookup of the instance failed.
AttributeFailure(r, t) ==
    [r EXCEPT !.pc = "failed", !.err = "AttributeError", !.endt = t]

\* The base process starts: self.normal_count and self.ev_count are looked
\* up, the plan is built and shuffled.
BaseRunBegin(p) ==
    /\ control = 0
    /\ run[p].pc = "base_init"
    /\ IF {"normal_count", "ev_count"} \subseteq attrs THEN
            \E js \in DrawSeqs(PlanLength) :
                /\ ReplaysTape(js, PlanLength)
                /\ run' = [run EXCEPT ![p].pc = "base_loop",
                                      ![p].vehicle_types = BaseShuffledPlan(js),
                                      ![p].start = now]
                /\ rnd' = TapeAfter(js)
                /\ control' = p
                /\ raised' = raised
       ELSE
            /\ run' = [run EXCEPT
                        ![p] = AttributeFailure([@ EXCEPT !.start = now], now)]
            /\ rnd' = rnd
            /\ control' = 0
            /\ raised' = raised \cup {[by |-> p, err |-> "AttributeError"]}
    /\ last' = NoOp
    /\ UNCHANGED <<constructed, normal_count, ev_count, next_id, now,
                   calls, pending, parking_res, charger_res, log, archive,
                   attrs>>

\* The for loop of the base run is exhausted.
BaseRunFinish(p) ==
    /\ control = p
    /\ run[p].pc = "base_loop"
    /\ run[p].idx >= Len(run[p].vehicle_types)
    /\ run' = [run EXCEPT ![p].pc = "done", ![p].endt = now]
    /\ control' = 0
    /\ UNCHANGED <<constructed, normal_count, ev_count, next_id, now,
                   calls, pending, parking_res, charger_res, log, raised,
                   last, rnd, archive, attrs>>

\* The run record of the base run after the sampler call of an iteration.
BaseAfterSample(r, o) ==
    IF ~o.ok THEN
        [r EXCEPT !.pc = "failed", !.err = "SamplerError", !.endt = now]
    ELSE IF TimeoutRaises(o.value) THEN
        [r EXCEPT !.pc = "failed", !.err = "ValueError", !.endt = now,
                  !.delays = Append(@, o.value)]
    ELSE
        [r EXCEPT !.pc = "base_waiting", !.delays = Append(@, o.value),
                  !.wake = WakeTime(now, o.value)]

\* yield self.env.timeout(self.interarrival_func()) of the base run:
\* self.interarrival_func is looked up first.
BaseRunSample(p) ==
    /\ control = p
    /\ run[p].pc = "base_loop"
    /\ run[p].idx < Len(run[p].vehicle_types)
    /\ IF "interarrival_func" \in attrs THEN
            \E o \in Outcomes :
                /\ ReplaysSample(o)
                /\ run' = [run EXCEPT ![p] = BaseAfterSample(run[p], o)]
                /\ rnd' = SamplesAfter(rnd, o)
       ELSE
            /\ run' = [run EXCEPT ![p] = AttributeFailure(run[p], now)]
            /\ rnd' = rnd
    /\ raised' = IF run'[p].pc = "failed"
                 THEN raised \cup {[by |-> p, err |-> run'[p].err]}
                 ELSE raised
    /\ control' = 0
    /\ UNCHANGED <<constructed, normal_count, ev_count, next_id, now,
                   calls, pending, parking_res, charger_res, log, last,
                   archive, attrs>>

\* The run record of the base run after generate_vehicle returned or raised.
BaseAfterSpawn(r, outcome) ==
    IF outcome = "ok" THEN
        [r EXCEPT !.pc = "base_loop", !.idx = @ + 1]
    ELSE
        [r EXCEPT !.pc = "failed", !.err = "SpawnFailure", !.endt = r.wake]

\* The timeout of the base run p is the next event of the queue.
BaseNextEvent(p) ==
    /\ run[p].pc = "base_waiting"
    /\ \A t \in VTypes : pending[t] = 0
    /\ \A q \in Procs : run[q].pc \notin {"init", "base_init"}
    /\ \A q \in Procs :
            run[q].pc \in {"waiting", "base_waiting"} =>
                run[q].wake >= run[p].wake

\* The timeout fires and the base loop body calls self.generate_vehicle.
BaseRunSpawn(p) ==
    /\ control = 0
    /\ BaseNextEvent(p)
    /\ now' = run[p].wake
    /\ \E outcome \in FactoryOutcomes :
        LET vtype == run[p].vehicle_types[run[p].idx + 1] IN
        /\ generate_vehicle(vtype, run[p].wake, p, outcome)
        /\ run' = [run EXCEPT ![p] = BaseAfterSpawn(run[p], outcome)]
        /\ control' = IF run'[p].pc = "base_loop" THEN p ELSE 0
        /\ raised' = IF run'[p].pc = "failed"
                     THEN raised \cup {[by |-> p, err |-> run'[p].err]}
                     ELSE raised
    /\ UNCHANGED <<constructed, normal_count, ev_count, rnd, archive,
                   attrs>>

\* The steps of run process p so far: one per entity it spawned.
StepsOf(p) ==
    [k \in 1..Len(StartedBy(p)) |->
        [delay |-> run[p].delays[k], at |-> StartedBy(p)[k].at,
         vtype |-> StartedBy(p)[k].vtype, vid |-> StartedBy(p)[k].vid]]

\* The driver has run CustomVehicleGenerator.run to completion.  It seeds
\* the random source and the sampler again, builds a new environment with
\* the same initial time and a new instance with the same counts and the
\* same sampler, on which it will register VehicleGenerator.run.
Reexecute ==
    /\ rnd.seeded
    /\ ~archive.present
    /\ control = 0
    /\ run[1].pc = "done"
    /\ attrs = RunAttrs
    /\ archive' = [present |-> TRUE, types |-> TypesOf(StartedBy(1)),
                   delays |-> run[1].delays, steps |-> StepsOf(1)]
    /\ rnd' = [rnd EXCEPT !.tpos = 0, !.spos = 0]
    /\ now' = run[1].start
    /\ next_id' = 0
    /\ control' = 0
    /\ run' = [p \in Procs |-> NewRun]
    /\ calls' = <<>>
    /\ pending' = [t \in VTypes |-> 0]
    /\ parking_res' = EmptyPool
    /\ charger_res' = EmptyPool
    /\ log' = 0
    /\ raised' = {}
    /\ last' = NoOp
    /\ UNCHANGED <<constructed, normal_count, ev_count, attrs>>

\* The driver constructs either class.  On a CustomVehicleGenerator it
\* registers the run of the class first and, in a second execution, the run
\* of the base class; on an instance that lacks an attribute only the base
\* run is of interest.  Counts are assigned before a run only.
BaseNext ==
    \/ \E n, m \in Counts : CustomInit(n, m)
    \/ BaseInit
    \/ \E n, m \in Counts :
            run[1].pc = "idle" /\ ~archive.present /\ SetCounts(n, m)
    \/ ~archive.present /\ attrs = RunAttrs /\ RunStart(1)
    \/ (archive.present \/ attrs # RunAttrs) /\ BaseRunStart(1)
    \/ RunBegin(1)
    \/ RunSample(1)
    \/ RunFinish(1)
    \/ RunSpawn(1)
    \/ BaseRunBegin(1)
    \/ BaseRunSample(1)
    \/ BaseRunFinish(1)
    \/ BaseRunSpawn(1)
    \/ \E vtype \in VTypes : VehicleArrive(vtype)
    \/ Reexecute

BaseSpec == DetInit /\ [][BaseNext]_vars

\* ------------------------------------------------------ two run processes
\* The driver registers run() twice on the same instance and may call
\* generate_vehicle itself while the processes it registered wait.
\* Plans of at most two elements let the two processes and the driver
\* interleave in every order; a negative count gives the plan of count 0.
TwoRunCounts == 0..1

\* Every run process registered so far is suspended on a delay.
AtDelayWait ==
    /\ \E p \in Procs : run[p].pc = "waiting"
    /\ \A p \in Procs : run[p].pc \in {"idle", "waiting"}

TwoRunNext ==
    \/ \E n, m \in TwoRunCounts : CustomInit(n, m)
    \/ \E vtype \in VTypes : AtDelayWait /\ DirectGenerate(vtype)
    \/ \E p \in Procs : RunStart(p)
    \/ \E p \in Procs : RunBegin(p)
    \/ \E p \in Procs : RunSample(p)
    \/ \E p \in Procs : RunFinish(p)
    \/ \E p \in Procs : RunSpawn(p)
    \/ \E vtype \in VTypes : VehicleArrive(vtype)

TwoRunSpec == Init /\ [][TwoRunNext]_vars

\* ------------------------------------------------------------ second run
\* The driver registers run() once more on the same instance when the
\* first run has completed.
SecondRunNext ==
    \/ \E n, m \in Counts : CustomInit(n, m)
    \/ RunStart(1)
    \/ run[1].pc = "done" /\ RunStart(2)
    \/ \E p \in Procs : RunBegin(p)
    \/ \E p \in Procs : RunSample(p)
    \/ \E p \in Procs : RunFinish(p)
    \/ \E p \in Procs : RunSpawn(p)
    \/ \E vtype \in VTypes : VehicleArrive(vtype)

SecondRunSpec == Init /\ [][SecondRunNext]_vars


\* ================================================================ claims
Completed(p) == run[p].pc = "done"

ValidCounts == constructed /\ normal_count >= 0 /\ ev_count >= 0

\* C1: for counts n, m >= 0 a run that reaches completion has called
\* generate_vehicle exactly n + m times, n times with "normal" and m times
\* with "ev", whatever permutation the shuffle produced.
C1_CompletedRunSpawnsConfiguredMultiset ==
    \A p \in Procs :
        (ValidCounts /\ Completed(p)) =>
            LET ts == TypesOf(CallsBy(p)) IN
            /\ Len(ts) = normal_count + ev_count
            /\ CountOf(ts, "normal") = normal_count
            /\ CountOf(ts, "ev") = ev_count

\* A completed run of one normal and one ev vehicle whose plan the shuffle
\* reordered.
C1_Witness ==
    /\ Completed(1)
    /\ normal_count = 1
    /\ ev_count = 1
    /\ TypesOf(CallsBy(1)) = <<"ev", "normal">>

\* The positions in calls of the calls made by `by'.
PositionsOf(by) == {i \in 1..Len(calls) : calls[i].by = by}

\* Every generate_vehicle call so far returned normally.
NoCallFailed == \A i \in 1..Len(calls) : calls[i].outcome = "ok"

\* C2 as stated: the identifiers of the entities spawned across a single
\* completed run with counts n, m >= 0 are exactly 0 .. n+m-1, the k-th
\* entity spawned (from 0) receiving identifier k (read here for executions
\* in which the entity factory never fails).
C2_IdsAreZeroToTotal ==
    \A p \in Procs :
        (ValidCounts /\ Completed(p) /\ NoCallFailed) =>
            IdsOf(StartedBy(p)) = [k \in 1..(normal_count + ev_count) |-> k - 1]

\* No other generate_vehicle call falls between the first and the last call
\* of run process p.
Uninterrupted(p) ==
    \A i, j \in PositionsOf(p) : \A k \in i..j : calls[k].by = p

\* Identifiers the scheduler handed out before the first call of p: one per
\* earlier call that got past the Vehicle constructor.
HandedOutBefore(p) ==
    Cardinality({i \in 1..Len(calls) :
                    /\ calls[i].outcome # "ctor_raises"
                    /\ \A j \in PositionsOf(p) : i < j})

\* C2 amended: the identifiers of a completed run are b .. b+n+m-1 in spawn
\* order, b being the number of identifiers handed out before the run's first
\* spawn, when no other generate_vehicle call falls inside the run; they are
\* 0 .. n+m-1 when in addition nothing was spawned before.
C2_IdsAreConsecutiveFromBase ==
    \A p \in Procs :
        (ValidCounts /\ Completed(p) /\ Uninterrupted(p)) =>
            IdsOf(StartedBy(p)) =
                [k \in 1..(normal_count + ev_count) |->
                    HandedOutBefore(p) + k - 1]

\* A completed, uninterrupted run of two vehicles that started after the
\* driver had injected one vehicle: its identifiers are 1, 2.
C2_Witness ==
    /\ Completed(1)
    /\ Uninterrupted(1)
    /\ normal_count = 1
    /\ ev_count = 1
    /\ HandedOutBefore(1) = 1
    /\ IdsOf(StartedBy(1)) = <<1, 2>>

\* C3: in a completed run the k-th entity is spawned at the run's start time
\* plus the sum of the first k delays the sampler returned, for every k up to
\* the plan length, and no delay used by the run is negative.
C3_SpawnTimesAreCumulativeDelays ==
    \A p \in Procs :
        Completed(p) =>
            /\ Len(StartedBy(p)) = Len(run[p].vehicle_types)
            /\ Len(run[p].delays) = Len(run[p].vehicle_types)
            /\ \A k \in 1..Len(run[p].delays) :
                /\ run[p].delays[k] >= 0
                /\ StartedBy(p)[k].at =
                        run[p].start + SumSeq(Prefix(run[p].delays, k))

\* A completed run with delays 1, 1: spawns at times 1 and 2.
C3_Witness ==
    /\ Completed(1)
    /\ run[1].delays = <<1, 1>>
    /\ TimesOf(StartedBy(1)) = <<1, 2>>

\* C4 as stated: a negative normal_count or ev_count is rejected with a
\* ConfigurationError at construction, before any process is started and
\* before run samples a delay or spawns an entity.
C4_NegativeCountRejected ==
    (normal_count < 0 \/ ev_count < 0) =>
        /\ ~constructed
        /\ Surfaced(0, "ConfigurationError")
        /\ \A p \in Procs : run[p].pc = "idle" /\ run[p].delays = <<>>
        /\ calls = <<>>


\* C5: when the entity factory fails during run, the failure reaches the
\* caller of the run, the spawn is not retried, and no later element of the
\* plan is sampled for or spawned.
C5_SpawnFailureAbortsRun ==
    \A p \in Procs : \A i \in PositionsOf(p) :
        calls[i].outcome # "ok" =>
            /\ run[p].pc = "failed"
            /\ run[p].err = "SpawnFailure"
            /\ Surfaced(p, "SpawnFailure")
            /\ \A j \in PositionsOf(p) : j <= i
            /\ Len(run[p].delays) = Len(CallsBy(p))
            /\ Len(StartedBy(p)) = Len(CallsBy(p)) - 1
            /\ run[p].idx = Len(StartedBy(p))

\* The factory failed on the first of two planned vehicles; the run is
\* dead with one element of the plan left, and the environment went on (a
\* vehicle the driver injected has arrived since).
C5_Witness ==
    /\ Len(run[1].vehicle_types) = 2
    /\ Len(CallsBy(1)) = 1
    /\ CallsBy(1)[1].outcome = "process_raises"
    /\ calls[Len(calls)].by = 0
    /\ run[1].pc = "failed"
    /\ log = 1

\* The sampler raised, or returned a negative delay, in run process p.
SamplerFailed(p) ==
    \/ run[p].err = "SamplerError"
    \/ \E k \in 1..Len(run[p].delays) : run[p].delays[k] < 0

\* The delays of p that were waited for.
WaitedDelays(p) == SelectSeq(run[p].delays, LAMBDA d : d >= 0)

\* C6: when the sampler returns a negative delay or raises during run, the
\* run is aborted at once and the failure reaches the caller: the clock is
\* not advanced by that delay and no entity is spawned for that element of
\* the plan or a later one.
C6_SamplerFailureAbortsRun ==
    \A p \in Procs :
        SamplerFailed(p) =>
            /\ run[p].pc = "failed"
            /\ run[p].err \in {"SamplerError", "ValueError"}
            /\ Surfaced(p, run[p].err)
            /\ \A k \in 1..Len(run[p].delays) :
                    run[p].delays[k] < 0 => k = Len(run[p].delays)
            /\ Len(CallsBy(p)) = Len(WaitedDelays(p))
            /\ Len(StartedBy(p)) = Len(CallsBy(p))
            /\ run[p].idx = Len(CallsBy(p))
            /\ run[p].idx < Len(run[p].vehicle_types)
            /\ run[p].endt = run[p].start + SumSeq(WaitedDelays(p))
            /\ run[p].wake <= run[p].endt

\* The sampler returned 1 and then -1: one vehicle was spawned at time 1 and
\* the run failed there with one element of the plan left.
C6_Witness ==
    /\ run[1].delays = <<1, 0 - 1>>
    /\ run[1].pc = "failed"
    /\ run[1].err = "ValueError"
    /\ TimesOf(StartedBy(1)) = <<1>>
    /\ Len(run[1].vehicle_types) = 2
    /\ now = 1

\* C7: with normal_count = 0 and ev_count = 0 a run spawns nothing, never
\* calls the sampler, never suspends on a delay and terminates at the
\* simulated time at which it started.
C7_EmptyPlanRunsToCompletionAtOnce ==
    \A p \in Procs :
        (constructed /\ normal_count = 0 /\ ev_count = 0
            /\ run[p].pc \notin {"idle", "init"}) =>
            /\ run[p].pc \in {"loop", "done"}
            /\ run[p].pc = "loop" => control = p
            /\ run[p].delays = <<>>
            /\ run[p].err = "none"
            /\ CallsBy(p) = <<>>
            /\ run[p].pc = "done" => run[p].endt = run[p].start

C7_Witness ==
    /\ constructed
    /\ normal_count = 0
    /\ ev_count = 0
    /\ Completed(1)
    /\ rnd.spos = 0

DirectOk(c, vtype) ==
    /\ c.op = "generate_vehicle"
    /\ c.by = 0
    /\ c.vtype = vtype
    /\ c.outcome = "ok"

\* C8: two direct generate_vehicle("ev") calls in a row, outside run, create
\* two entities with consecutive identifiers (id, id + 1) at the same value
\* of the simulated clock: no delay is sampled or waited between them.
C8_DirectCallsConsecutiveIdsSameTime ==
    [][(/\ DirectOk(last, "ev")
        /\ DirectOk(last', "ev")
        /\ Len(calls') = Len(calls) + 1)
       => /\ last'.vid = last.vid + 1
          /\ last'.at = last.at
          /\ now' = now
          /\ run' = run
          /\ next_id' = last'.vid + 1]_vars

\* Two direct "ev" calls with nothing between them: both vehicle processes
\* are still waiting for their Initialize event.
C8_Witness ==
    /\ Len(calls) = 2
    /\ DirectOk(last, "ev")
    /\ calls[1].by = 0 /\ calls[1].vtype = "ev" /\ calls[1].outcome = "ok"
    /\ calls[2].by = 0 /\ calls[2].vtype = "ev" /\ calls[2].outcome = "ok"
    /\ calls[2].vid = calls[1].vid + 1
    /\ pending["ev"] = 2

\* The time of the last generate_vehicle call of p, its start time if none.
LastCallTime(p) ==
    IF CallsBy(p) = <<>> THEN run[p].start
    ELSE CallsBy(p)[Len(CallsBy(p))].at

\* C9: under fair scheduling a started run eventually terminates, and it
\* terminates at the time of its last spawn without waiting for a spawned
\* vehicle: also when vehicles stay blocked on a pool for ever.
C9_RunTerminatesWithoutJoining ==
    /\ \A p \in Procs : (run[p].pc # "idle") ~> Terminated(p)
    /\ [](\A p \in Procs : Terminated(p) => run[p].endt = LastCallTime(p))

\* The run has completed while a vehicle it spawned waits in the queue of
\* the parking pool, whose only slot went to an injected vehicle and is never
\* given back.
C9_Witness ==
    /\ Completed(1)
    /\ Len(StartedBy(1)) = 2
    /\ Len(CallsBy(0)) = 1
    /\ parking_res.queue > 0

\* C10: two schedulers constructed with the same counts and the same
\* sampler, each run from the same seed of the shuffle and of the sampler,
\* spawn the same sequence of types and use the same sequence of delays.
C10_SameSeedSamePlanAndDelays ==
    (archive.present /\ Completed(1)) =>
        /\ TypesOf(StartedBy(1)) = archive.types
        /\ run[1].delays = archive.delays

\* The second execution has completed with a reordered plan, in an
\* environment that started at another time and on a scheduler that had
\* already handed out an identifier before the run.
C10_Witness ==
    /\ archive.present
    /\ Completed(1)
    /\ archive.types = <<"ev", "normal">>
    /\ archive.delays = <<0, 1>>
    /\ run[1].start = 1
    /\ HandedOutBefore(1) = 1

\* The sampler of run process p returned one more delay in this step.
Sampled(p) == Len(run'[p].delays) > Len(run[p].delays)

\* Run process p called generate_vehicle in this step.
Spawned(p) == Len(CallsBy(p)') > Len(CallsBy(p))

\* C11: each element of the plan is processed in the order sample, suspend,
\* spawn.  In every reachable state the number of delays the run sampled
\* minus the number of entities it spawned is 0 or 1; a delay is sampled
\* only when every earlier delay has its entity, and a spawn happens only
\* for the one delay that has none yet, at the time that delay ends.
C11_SampleSuspendSpawn ==
    /\ [](\A p \in Procs :
            /\ Len(run[p].delays) - Len(StartedBy(p)) \in {0, 1}
            /\ Len(CallsBy(p)) <= Len(run[p].delays)
            /\ run[p].pc = "waiting" =>
                    Len(run[p].delays) = Len(CallsBy(p)) + 1
            /\ run[p].pc \in {"loop", "done"} =>
                    Len(run[p].delays) = Len(StartedBy(p)))
    /\ [][\A p \in Procs :
            /\ Sampled(p) =>
                    /\ Len(run'[p].delays) = Len(run[p].delays) + 1
                    /\ Len(run[p].delays) = Len(StartedBy(p))
                    /\ ~Spawned(p)
                    /\ now' = now
            /\ Spawned(p) =>
                    /\ Len(CallsBy(p)') = Len(CallsBy(p)) + 1
                    /\ run'[p].delays = run[p].delays
                    /\ Len(CallsBy(p)') = Len(run[p].delays)
                    /\ now' = run[p].start + SumSeq(run[p].delays)]_vars

\* The run is suspended on the delay of its second element: two delays
\* sampled, one entity spawned, the clock at the end of the first delay.
C11_Witness ==
    /\ run[1].pc = "waiting"
    /\ run[1].delays = <<1, 1>>
    /\ Len(StartedBy(1)) = 1
    /\ now = 1
    /\ run[1].wake = 2

\* s is a rearrangement of the plan built from counts n, m.
PermutationOfPlan(s, n, m) ==
    /\ Len(s) = Len(BuildPlan(n, m))
    /\ \A t \in VTypes : CountOf(s, t) = CountOf(BuildPlan(n, m), t)

\* C12: the plan is fixed when run starts.  It is a permutation of the
\* plan of the counts read at that moment and no later step changes it,
\* whatever the driver assigns to normal_count or ev_count meanwhile; the
\* i-th call of the run has the type of the i-th element of that plan, the
\* elements are taken once each from left to right, and a completed run has
\* spawned exactly the plan.
C12_PlanFixedAtRunStart ==
    /\ [](\A p \in Procs :
            /\ Len(CallsBy(p)) <= Len(run[p].vehicle_types)
            /\ TypesOf(CallsBy(p)) =
                    Prefix(run[p].vehicle_types, Len(CallsBy(p)))
            /\ run[p].idx = Len(StartedBy(p))
            /\ Completed(p) =>
                    TypesOf(StartedBy(p)) = run[p].vehicle_types)
    /\ [][\A p \in Procs :
            /\ run'[p].vehicle_types # run[p].vehicle_types =>
                    /\ run[p].pc = "init"
                    /\ run'[p].pc = "loop"
                    /\ PermutationOfPlan(run'[p].vehicle_types,
                                         normal_count, ev_count)
            /\ run[p].idx # run'[p].idx => run'[p].idx = run[p].idx + 1
            /\ (normal_count' # normal_count \/ ev_count' # ev_count) =>
                    /\ run' = run
                    /\ calls' = calls]_vars

\* A run that started with one normal and one ev vehicle planned has
\* completed with both spawned, in the shuffled order, although the driver
\* set both counts to 0 while it was under way.
C12_Witness ==
    /\ Completed(1)
    /\ run[1].vehicle_types = <<"ev", "normal">>
    /\ TypesOf(StartedBy(1)) = <<"ev", "normal">>
    /\ normal_count = 0
    /\ ev_count = 0

\* The entities the instance has spawned: constructed and started.
spawned == SelectSeq(calls, LAMBDA c : c.outcome = "ok")

\* No two entries of vs carry the same identifier.
DistinctIds(vs) ==
    \A i, j \in 1..Len(vs) : vs[i].vid = vs[j].vid => i = j

\* C13 as stated, its state part: no identifier is given to two entities
\* and next_id equals the total number of entities the instance has
\* spawned.
C13_NextIdCountsSpawned ==
    /\ DistinctIds(vehicles)
    /\ next_id = Len(spawned)

\* C13 amended: over any sequence of run and direct generate_vehicle
\* operations next_id never decreases, changes only in a generate_vehicle
\* call and then by exactly one, every call that returns advances it by
\* one, no identifier is given to two entities, and next_id equals the
\* number of entities the instance has constructed; that is the number of
\* entities spawned as long as no process start has failed.
C13_NextIdCountsConstructed ==
    /\ [](/\ DistinctIds(vehicles)
          /\ IdsOf(vehicles) = [k \in 1..Len(vehicles) |-> k - 1]
          /\ next_id = Len(vehicles)
          /\ Len(spawned) <= next_id
          /\ (\A i \in 1..Len(calls) : calls[i].outcome # "process_raises")
                => next_id = Len(spawned))
    /\ [][/\ next_id' >= next_id
          /\ next_id' # next_id =>
                /\ next_id' = next_id + 1
                /\ Len(calls') = Len(calls) + 1
                /\ calls'[Len(calls')].vid = next_id
          /\ Len(spawned') > Len(spawned) => next_id' = next_id + 1]_vars

\* A run and a direct call have both spawned on the instance; the start of
\* one further entity failed after its construction, so three identifiers
\* are gone for two entities spawned.
C13_Witness ==
    /\ Len(StartedBy(1)) >= 1
    /\ Len(CallsBy(0)) = 1
    /\ \E i \in 1..Len(calls) : calls[i].outcome = "process_raises"
    /\ Len(spawned) = 2
    /\ next_id = 3

\* The step is one of the scheduler: a step of run or a generate_vehicle
\* call.  The steps of the vehicles change none of these variables.
SchedulerStep == run' # run \/ calls' # calls \/ next_id' # next_id

\* C14: the scheduler never acquires, releases or changes the parking or
\* the charger pool and never emits a log event: every step of run and of
\* generate_vehicle leaves the occupancy of both pools and the event log as
\* they were, and every entity constructed has received the two pool
\* handles and the logger the scheduler was constructed with.
C14_PoolsAndLogUntouched ==
    /\ [](\A i \in 1..Len(calls) :
            /\ calls[i].parking_res = "parking_res"
            /\ calls[i].charger_res = "charger_res"
            /\ calls[i].logger = "logger")
    /\ [][/\ SchedulerStep =>
                /\ parking_res' = parking_res
                /\ charger_res' = charger_res
                /\ log' = log
          /\ (parking_res' # parking_res \/ charger_res' # charger_res
                \/ log' # log) =>
                \E t \in VTypes : pending'[t] = pending[t] - 1]_vars

\* The run has just spawned its second entity while a vehicle holds the
\* parking slot and two arrivals are in the log.
C14_Witness ==
    /\ last.op = "generate_vehicle"
    /\ last.by = 1
    /\ Len(StartedBy(1)) = 2
    /\ parking_res.users = 1
    /\ log = 2

\* C15: CustomVehicleGenerator.run and VehicleGenerator.run are the same
\* algorithm.  With the same counts, the same sampler results and the same
\* outcome of the shuffle, a completed base run has made the same sequence
\* of (delay, spawn time, type, identifier) steps as the completed run of
\* the specialized class, and has used the same delays.
C15_BaseRunSameSteps ==
    (archive.present /\ Completed(1)) =>
        /\ StepsOf(1) = archive.steps
        /\ run[1].delays = archive.delays
        /\ TypesOf(StartedBy(1)) = archive.types

\* Both runs have completed with a plan the shuffle reordered and with two
\* different delays.
C15_Witness ==
    /\ archive.present
    /\ Completed(1)
    /\ Len(archive.steps) = 2
    /\ archive.types = <<"ev", "normal">>
    /\ archive.delays = <<0, 1>>
    /\ StepsOf(1)[2] = [delay |-> 1, at |-> 1, vtype |-> "normal", vid |-> 1]

\* The instance is as VehicleGenerator.__init__ leaves it: no count and no
\* sampler has been defined on it.
BaseInstance == constructed /\ attrs = {}

Interleaved == \E i, j \in 1..Len(calls) : calls[i].by # calls[j].by

\* The identifiers of vs are 0, 1, ... in the order of vs.
CountsFromZero(vs) == IdsOf(vs) = [k \in 1..Len(vs) |-> k - 1]

\* C17 as stated: when two run processes of one instance, or a run and
\* direct calls, are interleaved at the delay waits, the entities spawned
\* have pairwise distinct identifiers that form the range 0 .. total-1.
C17_InterleavedIdsContiguous ==
    Interleaved => (DistinctIds(spawned) /\ CountsFromZero(spawned))

\* No process start has failed after a successful construction.
NoStartFailed ==
    \A i \in 1..Len(calls) : calls[i].outcome # "process_raises"

\* C17 amended: under the same interleavings the entities spawned have
\* pairwise distinct identifiers, the entities constructed have the
\* identifiers 0 .. k-1 in call order whoever the caller was, and the
\* entities spawned have 0 .. total-1 as long as no process start failed.
C17_InterleavedIdsDistinct ==
    Interleaved =>
        /\ DistinctIds(spawned)
        /\ CountsFromZero(vehicles)
        /\ next_id = Len(vehicles)
        /\ NoStartFailed => CountsFromZero(spawned)

\* Two run processes and the driver have spawned in turn, the driver while
\* both processes were waiting; the five entities have identifiers 0 .. 4.
C17_Witness ==
    /\ Len(calls) = 5
    /\ NoCallFailed
    /\ calls[1].by = 1
    /\ calls[2].by = 2
    /\ calls[3].by = 0
    /\ calls[4].by = 2
    /\ calls[5].by = 1
    /\ IdsOf(spawned) = <<0, 1, 2, 3, 4>>

\* The identifiers of the entities spawned so far.
SpawnedIds == {spawned[i].vid : i \in 1..Len(spawned)}

\* C18: in generate_vehicle the identifier is consumed between constructing
\* the entity and starting it.  A call whose constructor fails leaves
\* next_id unchanged; a call whose process start fails has advanced next_id
\* by one although no process was registered, and the identifier it used is
\* never given to a spawned entity.
C18_IdConsumedBeforeStart ==
    /\ [](\A i \in 1..Len(calls) :
            calls[i].outcome = "process_raises" =>
                /\ calls[i].vid < next_id
                /\ calls[i].vid \notin SpawnedIds)
    /\ [][Len(calls') > Len(calls) =>
            LET c == calls'[Len(calls')] IN
            /\ c.vid = next_id
            /\ c.outcome = "ctor_raises" =>
                    /\ next_id' = next_id
                    /\ pending' = pending
                    /\ Len(vehicles') = Len(vehicles)
            /\ c.outcome = "process_raises" =>
                    /\ next_id' = next_id + 1
                    /\ pending' = pending
                    /\ Len(vehicles') = Len(vehicles) + 1
                    /\ Len(spawned') = Len(spawned)
            /\ c.outcome = "ok" =>
                    /\ next_id' = next_id + 1
                    /\ pending'[c.vtype] = pending[c.vtype] + 1]_vars

\* A direct call failed in the constructor while the run was waiting and
\* the run then spawned with the same identifier, 0; the start of the next
\* entity of the run failed with identifier 1, which is used up.
C18_Witness ==
    /\ Len(calls) = 3
    /\ calls[1].outcome = "ctor_raises" /\ calls[1].vid = 0
    /\ calls[2].outcome = "ok" /\ calls[2].vid = 0
    /\ calls[3].outcome = "process_raises" /\ calls[3].vid = 1
    /\ next_id = 2
    /\ SpawnedIds = {0}

\* C19: a second run started on the same instance after the first has
\* completed builds a plan of its own with the same multiset, n normal and
\* m ev, and when it has completed it has spawned n + m further entities
\* with the identifiers n+m .. 2(n+m)-1: the counter is not set back to 0.
C19_SecondRunContinuesIds ==
    (ValidCounts /\ Completed(1) /\ run[2].pc \notin {"idle", "init"}) =>
        LET total == normal_count + ev_count IN
        /\ PermutationOfPlan(run[2].vehicle_types, normal_count, ev_count)
        /\ IdsOf(StartedBy(1)) = [k \in 1..total |-> k - 1]
        /\ \A k \in 1..Len(StartedBy(2)) :
                StartedBy(2)[k].vid = total + k - 1
        /\ Completed(2) =>
                /\ Len(StartedBy(2)) = total
                /\ CountOf(TypesOf(StartedBy(2)), "normal") = normal_count
                /\ CountOf(TypesOf(StartedBy(2)), "ev") = ev_count
                /\ next_id = 2 * total

\* Both runs have completed; the second one drew another permutation than
\* the first and its entities have the identifiers 2 and 3.
C19_Witness ==
    /\ Completed(1)
    /\ Completed(2)
    /\ run[1].vehicle_types = <<"normal", "ev">>
    /\ run[2].vehicle_types = <<"ev", "normal">>
    /\ IdsOf(StartedBy(2)) = <<2, 3>>
    /\ next_id = 4
====
